---- MODULE Spec2Model ----
(***************************************************************************)
(* A model of the OmniGraph DSI mapping-rule engine:                       *)
(*   - the backend renderer (src/src/server/server.js): evaluateCondition, *)
(*     processDsiSchema and the /api/dsi/schema handler;                   *)
(*   - the admin front end (src/unnamed/part_001): generateJsonLd,         *)
(*     parseJsonToMappings, the NodeMapper and its RuleModal.              *)
(*                                                                         *)
(* Representation.                                                         *)
(*   A JavaScript string is a sequence of tokens.  The characters the code *)
(*   inspects ("[", "]", "(", ")", " ", ">", "<", "=", "!", "@") are       *)
(*   tokens of their own, "_comment" is a token (the prefix the code tests *)
(*   for), and every other run of characters, which the code never looks   *)
(*   inside, is one opaque word ("review_count", "4.5", "AND", ...).       *)
(*   startsWith, endsWith,                                                 *)
(*   slice, trim, concatenation and the regular expressions act on these   *)
(*   sequences exactly as the code's act on characters.                    *)
(*   A JavaScript value is a tagged record: Str, Num, Bool, Null, Obj or   *)
(*   Undefined.  Numbers are fixed point with one decimal: Num(48) is 4.8. *)
(*   An object is the sequence of its (key, value) entries in insertion    *)
(*   order, the order for-in and JSON.stringify use.                       *)
(*   JSON text is the value it parses to; text that is not JSON is the     *)
(*   value MalformedJson, on which JSON.parse throws.                      *)
(*   A condition object shared between the RuleModal's list and the        *)
(*   mapping it was opened on is an element of the list that carries its   *)
(*   index in mapping.conditions: a write to it lands in both.             *)
(***************************************************************************)
EXTENDS Integers, Sequences, FiniteSets, TLC

VARIABLES
    pc,          \* which call is pending: "evaluate", "request", "generate", "parse", "edited"; then "done" or "resynced";
                 \* in the mapper: "mapper", then "synced"; "row", "modal", then "applied" or "cancelled"
    condition,   \* arguments (field, operator, value) of a direct evaluateCondition call
    data,        \* the data record of a direct evaluateCondition call
    evalResult,  \* what evaluateCondition returned
    body,        \* req.body of POST /api/dsi/schema: appId and, unless missing, productData
    rulesData,   \* the deployed rules: [jsonLdTemplate, mappings], both JSON text
    response,    \* the HTTP response of POST /api/dsi/schema
    mappings,    \* the editor's mapping set (front end)
    rawJsonLd,   \* the document generateJsonLd produced
    synced,      \* what parseJsonToMappings returned
    nextId,      \* NodeMapper: the id the next added mapping gets
    modalMapping,\* NodeMapper: the mapping the RuleModal is open on, or Null
    rules,       \* RuleModal: the rule list being edited
    opened       \* the mapping as it was when the RuleModal was opened (history)

vars == <<pc, condition, data, evalResult, body, rulesData, response, mappings, rawJsonLd, synced,
          nextId, modalMapping, rules, opened>>

----------------------------------------------------------------------------
(* JavaScript values *)

Str(s) == [t |-> "str", s |-> s]
Num(n) == [t |-> "num", n |-> n]
Bool(b) == [t |-> "bool", b |-> b]
Null == [t |-> "null"]
Undefined == [t |-> "undefined"]
Obj(entries) == [t |-> "obj", o |-> entries]
NaN == [t |-> "nan"]
MalformedJson == [t |-> "malformed"]

\* One word as a string.
W(word) == <<word>>

\* Decimal text of the numbers the model uses (one decimal, fixed point x10).
Numerals ==
    << [txt |-> "0", n |-> 0], [txt |-> "3", n |-> 30], [txt |-> "5", n |-> 50],
       [txt |-> "10", n |-> 100], [txt |-> "4.5", n |-> 45], [txt |-> "4.8", n |-> 48] >>

IsNumeral(tok) == \E i \in 1..Len(Numerals) : Numerals[i].txt = tok
NumeralValue(tok) == Numerals[CHOOSE i \in 1..Len(Numerals) : Numerals[i].txt = tok].n
NumeralText(n) == Numerals[CHOOSE i \in 1..Len(Numerals) : Numerals[i].n = n].txt

\* String.prototype.startsWith / endsWith for a one-token prefix or suffix.
startsWith(s, tok) == Len(s) >= 1 /\ s[1] = tok
endsWith(s, tok) == Len(s) >= 1 /\ s[Len(s)] = tok

\* s.slice(1, -1)
slice1(s) == SubSeq(s, 2, Len(s) - 1)

\* String.prototype.trim
RECURSIVE trimStart(_)
trimStart(s) == IF Len(s) >= 1 /\ s[1] = " " THEN trimStart(Tail(s)) ELSE s
RECURSIVE trimEnd(_)
trimEnd(s) == IF Len(s) >= 1 /\ s[Len(s)] = " " THEN trimEnd(SubSeq(s, 1, Len(s) - 1)) ELSE s
trim(s) == trimEnd(trimStart(s))

\* String(v): the canonical string form of a value.
String(v) ==
    CASE v.t = "str" -> v.s
      [] v.t = "num" -> W(NumeralText(v.n))
      [] v.t = "bool" -> IF v.b THEN W("true") ELSE W("false")
      [] v.t = "null" -> W("null")
      [] v.t = "undefined" -> W("undefined")
      [] v.t = "obj" -> <<"[", "object", " ", "Object", "]">>

\* parseFloat(v): the number a leading numeral denotes, NaN otherwise.
parseFloat(v) ==
    LET s == trimStart(String(v))
    IN IF Len(s) >= 1 /\ IsNumeral(s[1]) THEN Num(NumeralValue(s[1])) ELSE NaN

\* a > b and a < b on numbers: false as soon as one side is NaN.
NumGt(a, b) == a.t = "num" /\ b.t = "num" /\ a.n > b.n
\* a < b with NaN read as 0 (what Number(x) || 0 would give).
NumLtNaNAsZero(a, b) ==
    (IF a.t = "num" THEN a.n ELSE 0) < (IF b.t = "num" THEN b.n ELSE 0)
NumLt(a, b) == a.t = "num" /\ b.t = "num" /\ a.n < b.n

\* Truthiness, as in `x && ...` and `x || d`.
Truthy(v) ==
    CASE v.t = "str" -> v.s # <<>>
      [] v.t = "num" -> v.n # 0
      [] v.t = "bool" -> v.b
      [] v.t = "obj" -> TRUE
      [] OTHER -> FALSE

\* data[key] on a record held as a function from keys to values.
Lookup(rec, key) == IF key \in DOMAIN rec THEN rec[key] ELSE Undefined

----------------------------------------------------------------------------
(* Objects: sequences of entries [k, v] with distinct keys *)

Entry(k, v) == [k |-> k, v |-> v]
Keys(o) == { o[i].k : i \in 1..Len(o) }
Has(o, k) == k \in Keys(o)
Get(o, k) == IF Has(o, k) THEN o[CHOOSE i \in 1..Len(o) : o[i].k = k].v ELSE Undefined
\* o[k] = v: in place when the key exists, appended otherwise.
Put(o, k, v) ==
    IF Has(o, k)
    THEN [i \in 1..Len(o) |-> IF o[i].k = k THEN Entry(k, v) ELSE o[i]]
    ELSE Append(o, Entry(k, v))
\* delete o[k]
Del(o, k) == LET keep(e) == e.k # k IN SelectSeq(o, keep)

----------------------------------------------------------------------------
(* The grammar's operators and the names the code uses *)

OpGt == <<">">>
OpLt == <<"<">>
OpEq == <<"=", "=">>
OpNe == <<"!", "=">>
OpContains == W("contains")
OpIsEmpty == <<"is", " ", "empty">>
mockOperators == <<OpGt, OpLt, OpEq, OpNe, OpContains, OpIsEmpty>>

ReviewKey == W("review")
RuleKey == W("ratingValue_Rule")
RatingKey == W("ratingValue")
TypeKey == <<"@", "type">>
CommentToken == "_comment"
DefaultRating == Str(W("5.0"))

----------------------------------------------------------------------------
(* server.js: the condition evaluator *)

\* evaluateCondition with the missing-field guard dropped and the field read
\* as present (a fail-open slip).
evaluateConditionFailOpen(field, operator, value, rec) ==
    LET dataValue == Lookup(rec, field)
    IN CASE dataValue = Undefined -> TRUE
         [] operator = OpGt -> NumGt(parseFloat(dataValue), parseFloat(value))
         [] operator = OpLt -> NumLt(parseFloat(dataValue), parseFloat(value))
         [] operator = OpEq -> String(dataValue) = String(value)
         [] OTHER -> FALSE

evaluateCondition(field, operator, value, rec) ==
    LET dataValue == Lookup(rec, field)
    IN CASE dataValue = Undefined -> FALSE
         [] operator = OpGt -> NumGt(parseFloat(dataValue), parseFloat(value))
         [] operator = OpLt -> NumLt(parseFloat(dataValue), parseFloat(value))
         [] operator = OpEq -> String(dataValue) = String(value)
         [] OTHER -> FALSE

----------------------------------------------------------------------------
(* server.js: processDsiSchema *)

Arr(a) == [t |-> "arr", a |-> a]
Threw == [threw |-> TRUE]
Returned(doc) == [threw |-> FALSE, doc |-> doc]

\* typeof value === 'string' && value.startsWith('[') && value.endsWith(']')
IsPlaceholder(v) == v.t = "str" /\ startsWith(v.s, "[") /\ endsWith(v.s, "]")

\* A. the loop over the top-level keys: a placeholder becomes the data value,
\* or its key is deleted when the data record has no such key.
SubstitutePlaceholders(finalSchema, rec) ==
    LET resolved(e) == ~IsPlaceholder(e.v) \/ Lookup(rec, slice1(e.v.s)) # Undefined
        kept == SelectSeq(finalSchema, resolved)
    IN [i \in 1..Len(kept) |->
          IF IsPlaceholder(kept[i].v)
          THEN Entry(kept[i].k, Lookup(rec, slice1(kept[i].v.s)))
          ELSE kept[i]]

\* finalSchema.review && finalSchema.review.ratingValue_Rule
HasCarrier(finalSchema) ==
    LET review == Get(finalSchema, ReviewKey)
    IN review.t = "obj" /\ Truthy(Get(review.o, RuleKey))

\* mappings.find(m => m.target === 'review' && m.type === 'Condition')
IsReviewCondition(m) == m.target = ReviewKey /\ m.type = "Condition"
findReviewMapping(maps) ==
    IF \E i \in 1..Len(maps) : IsReviewCondition(maps[i])
    THEN maps[CHOOSE i \in 1..Len(maps) :
                 /\ IsReviewCondition(maps[i])
                 /\ \A j \in 1..(i - 1) : ~IsReviewCondition(maps[j])]
    ELSE Undefined

\* The chain loop as it would be with the join tokens read, left to right: AND
\* needs both sides, OR is true when either side is.
RECURSIVE JoinedFrom(_, _, _, _)
JoinedFrom(conditions, rec, i, acc) ==
    IF i > Len(conditions) THEN acc
    ELSE LET r == evaluateCondition(conditions[i].field, conditions[i].operator,
                                    conditions[i].value, rec)
         IN JoinedFrom(conditions, rec, i + 1,
                       IF conditions[i - 1].logic = "OR" THEN acc \/ r ELSE acc /\ r)
isMetJoined(conditions, rec) ==
    JoinedFrom(conditions, rec, 2,
               evaluateCondition(conditions[1].field, conditions[1].operator,
                                 conditions[1].value, rec))

\* The chain loop that stops at the first true condition instead of the first false.
isMetAny(conditions, rec) ==
    \E i \in 1..Len(conditions) :
        evaluateCondition(conditions[i].field, conditions[i].operator, conditions[i].value, rec)

\* let isMet = true; for (const condition of mapping.conditions) { if (!result) { isMet = false; break; } }
isMet(conditions, rec) ==
    \A i \in 1..Len(conditions) :
        evaluateCondition(conditions[i].field, conditions[i].operator, conditions[i].value, rec)

\* data[source] || '5.0'
ratingValue(rec, source) ==
    IF Truthy(Lookup(rec, source)) THEN Lookup(rec, source) ELSE DefaultRating

\* B. the conditional rule of the 'review' object, then the removal of the rule key.
ApplyReviewRule(finalSchema, maps, rec) ==
    IF ~HasCarrier(finalSchema) THEN Returned(finalSchema)
    ELSE IF maps.t # "arr" THEN Threw      \* mappings.find on a value that is no array
    ELSE
      LET mapping == findReviewMapping(maps.a)
          review == Get(finalSchema, ReviewKey).o
          resolved ==
              IF mapping # Undefined /\ Len(mapping.conditions) > 0
              THEN IF isMet(mapping.conditions, rec)
                   THEN Put(finalSchema, ReviewKey,
                            Obj(Put(review, RatingKey, ratingValue(rec, mapping.source))))
                   ELSE Del(finalSchema, ReviewKey)
              ELSE finalSchema
      IN Returned(IF Has(resolved, ReviewKey)
                  THEN Put(resolved, ReviewKey, Obj(Del(Get(resolved, ReviewKey).o, RuleKey)))
                  ELSE resolved)

\* for (const key in finalSchema) if (key.startsWith('_comment')) delete finalSchema[key]
StripComments(finalSchema) ==
    LET keep(e) == ~startsWith(e.k, CommentToken) IN SelectSeq(finalSchema, keep)

processDsiSchema(rec, rd) ==
    IF rd.mappings = MalformedJson \/ rd.jsonLdTemplate = MalformedJson
    THEN Threw                              \* JSON.parse throws a SyntaxError
    ELSE LET afterA == SubstitutePlaceholders(rd.jsonLdTemplate.o, rec)
             afterB == ApplyReviewRule(afterA, rd.mappings, rec)
         IN IF afterB.threw THEN Threw ELSE Returned(StripComments(afterB.doc))

\* The try/catch of app.post('/api/dsi/schema') around processDsiSchema.
Respond(rec, rd) ==
    LET r == processDsiSchema(rec, rd)
    IN IF r.threw
       THEN [status |-> 500, error |-> "Internal DSI processing failed."]
       ELSE [status |-> 200, schema |-> r.doc]

----------------------------------------------------------------------------
(* Inputs of the renderer *)

MaxConditions == 2      \* longest condition chain drawn

Placeholder(path) == <<"[", path, "]">>
\* `_comment_id_${id}` and `_comment_rule_${id}`
CommentKey(kind, id) == <<CommentToken, kind, ToString(id)>>

\* FIRESTORE_MOCK_DB['default-app-id'].jsonLdTemplate
RuleText ==
    <<"IF", " ", "(", "review_count", " ", ">", " ", "5", " ", "AND", " ",
      "average_rating", " ", ">", " ", "4.5", " ", "END", ")", " ", "THEN", " ",
      "[", "average_rating", "]", " ", "ELSE", " ", "[", "NULL", "]">>
Offers == Obj(<< Entry(TypeKey, Str(W("Offer"))),
                 Entry(W("priceCurrency"), Str(W("USD"))),
                 Entry(W("price"), Str(Placeholder("current_price"))) >>)
Review(rule) == Obj(<< Entry(TypeKey, Str(W("AggregateRating"))),
                       Entry(RuleKey, Str(rule)) >>)
jsonLdTemplate ==
    << Entry(<<"@", "context">>, Str(W("https://schema.org/"))),
       Entry(TypeKey, Str(W("Product"))),
       Entry(W("name"), Str(Placeholder("product.title"))),
       Entry(W("description"), Str(W("A fully customized, SEO-optimized product."))),
       Entry(W("offers"), Offers),
       Entry(W("identifier"), Str(Placeholder("product.metafields.custom.isbn"))),
       Entry(CommentKey("_id_", 1), Str(W("// Mapped via OmniGraph Node ID 1"))),
       Entry(ReviewKey, Review(RuleText)),
       Entry(CommentKey("_rule_", 2), Str(W("// Mapped to review with 2 condition(s)."))) >>

\* Documents as the raw editor can leave them (the stored template is free text).
MalformedRuleText == <<"IF", " ", "(", "garbage">>
WithPrice == Put(jsonLdTemplate, W("price"), Str(Placeholder("current_price")))
HandEdited ==
    Put(WithPrice, W("offers"),
        Obj(Put(Put(Offers.o, CommentKey("_note_", 1), Str(W("// edited by hand"))),
                RuleKey, Str(RuleText))))
Templates ==
    { Obj(jsonLdTemplate),
      Obj(WithPrice),
      Obj(Put(WithPrice, ReviewKey, Review(MalformedRuleText))),
      Obj(Del(WithPrice, ReviewKey)),
      Obj(HandEdited),
      MalformedJson }

\* Conditions and chains.
Condition(f, op, v, logic) == [field |-> f, operator |-> op, value |-> v, logic |-> logic]
Predicates ==
    { [field |-> W("review_count"), operator |-> OpGt, value |-> Num(50)],
      [field |-> W("average_rating"), operator |-> OpGt, value |-> Num(45)],
      [field |-> W("review_count"), operator |-> OpLt, value |-> Num(50)] }
\* A chain: predicates joined by AND or OR, the last one marked END.
Chains ==
    UNION { { [i \in 1..n |-> Condition(ps[i].field, ps[i].operator, ps[i].value,
                                        IF i = n THEN "END" ELSE js[i])] :
                ps \in [1..n -> Predicates], js \in [1..n -> {"AND", "OR"}] } :
            n \in 1..MaxConditions }

Mapping(id, source, target, type, conditions) ==
    [id |-> id, source |-> source, target |-> target, type |-> type, conditions |-> conditions]
IsbnMapping == Mapping(1, W("product.metafields.custom.isbn"), W("identifier"), "Text", <<>>)
\* FIRESTORE_MOCK_DB['default-app-id'].mappings, the chain of rule 2 varied.
MappingLists ==
    { Arr(<<IsbnMapping, Mapping(2, W("average_rating"), ReviewKey, "Condition", c)>>) :
        c \in Chains }
    \cup { Arr(<<IsbnMapping>>), Null, MalformedJson }

RulesDatas == [jsonLdTemplate : Templates, mappings : MappingLists]

\* Product data records: each field present with one of its values, or absent.
FieldValues ==
    ( W("review_count") :> {Num(30), Num(100)} ) @@
    ( W("average_rating") :> {Num(0), Num(48)} ) @@
    ( W("current_price") :> {Str(W("49.99"))} )
Title == W("product.title") :> Str(W("OmniGraph Pro Widget"))
DataRecords ==
    UNION { { d @@ Title : d \in { e \in [present -> UNION { FieldValues[f] : f \in present }] :
                                     \A f \in present : e[f] \in FieldValues[f] } } :
            present \in SUBSET DOMAIN FieldValues }

----------------------------------------------------------------------------
(* part_001: generateJsonLd *)

productSchema ==
    << Entry(<<"@", "context">>, Str(W("https://schema.org/"))),
       Entry(TypeKey, Str(W("Product"))),
       Entry(W("name"), Str(W("OmniGraph Pro Widget"))),
       Entry(W("description"), Str(W("A fully customized, SEO-optimized product."))),
       Entry(W("offers"), Obj(<< Entry(TypeKey, Str(W("Offer"))),
                                 Entry(W("priceCurrency"), Str(W("USD"))),
                                 Entry(W("price"), Str(W("99.99"))) >>)) >>

\* mapping.source ? `[${mapping.source}]` : ''
placeholderValue(source) == IF source # <<>> THEN <<"[">> \o source \o <<"]">> ELSE <<>>

\* `${c.field} ${c.operator} ${c.value} ${logic === 'END' ? '' : logic}`, the
\* logic recomputed from the index: 'END' for the last condition, 'AND' before it.
predicateText(c, index, n) ==
    c.field \o <<" ">> \o c.operator \o <<" ">> \o String(c.value) \o <<" ">>
      \o (IF index = n THEN <<>> ELSE W("AND"))

\* conditions.map(...).join(' ')
RECURSIVE joinPredicates(_, _)
joinPredicates(conditions, index) ==
    IF index = Len(conditions) THEN predicateText(conditions[index], index, Len(conditions))
    ELSE predicateText(conditions[index], index, Len(conditions)) \o <<" ">>
           \o joinPredicates(conditions, index + 1)

\* `IF (${ruleString}) THEN ${value} ELSE [NULL]`
IfOpen == <<"IF", " ", "(">>
CloseThen == <<")", " ", "THEN", " ">>
ElseNull == <<" ", "ELSE", " ", "[", "NULL", "]">>
ruleText(mapping) ==
    IfOpen \o joinPredicates(mapping.conditions, 1) \o CloseThen
      \o placeholderValue(mapping.source) \o ElseNull

\* The body of mappings.forEach for one mapping.
writeMapping(schema, mapping) ==
    IF mapping.target = ReviewKey /\ mapping.type = "Condition" /\ Len(mapping.conditions) > 0
    THEN Put(Put(schema, ReviewKey, Review(ruleText(mapping))),
             CommentKey("_rule_", mapping.id),
             Str(<<"// Mapped to review with ", ToString(Len(mapping.conditions)),
                   " condition(s).">>))
    ELSE IF mapping.target # <<>> /\ mapping.source # <<>>
    THEN Put(Put(schema, mapping.target, Str(placeholderValue(mapping.source))),
             CommentKey("_id_", mapping.id),
             Str(<<"// Mapped via OmniGraph Node ID ", ToString(mapping.id)>>))
    ELSE schema

RECURSIVE writeMappings(_, _, _)
writeMappings(schema, ms, i) ==
    IF i > Len(ms) THEN schema ELSE writeMappings(writeMapping(schema, ms[i]), ms, i + 1)

generateJsonLd(ms) == Obj(writeMappings(productSchema, ms, 1))

----------------------------------------------------------------------------
(* part_001: parseJsonToMappings *)

defaultMappings ==
    << Mapping(1, W("product.metafields.custom.isbn"), W("identifier"), "Text", <<>>),
       Mapping(2, W("average_rating"), ReviewKey, "Condition",
               << Condition(W("review_count"), OpGt, Num(50), "AND"),
                  Condition(W("average_rating"), OpGt, Num(45), "END") >>) >>

MatchAt(s, pat, i) == i >= 1 /\ i + Len(pat) - 1 <= Len(s) /\ SubSeq(s, i, i + Len(pat) - 1) = pat
Min(S) == CHOOSE x \in S : \A y \in S : x <= y

\* ruleString.match(/IF \((.*?)\) THEN \[(.*?)\] ELSE \[NULL\]/): the leftmost
\* 'IF (' from which the rest can match, each lazy group as short as possible.
ThenOpen == <<")", " ", "THEN", " ", "[">>
CloseElseNull == <<"]", " ", "ELSE", " ", "[", "NULL", "]">>
envelopeMatch(s) ==
    LET ends(q) == { r \in (q + Len(ThenOpen))..Len(s) : MatchAt(s, CloseElseNull, r) }
        thens(p) == { q \in (p + Len(IfOpen))..Len(s) : MatchAt(s, ThenOpen, q) /\ ends(q) # {} }
        starts == { p \in 1..Len(s) : MatchAt(s, IfOpen, p) /\ thens(p) # {} }
    IN IF starts = {} THEN [matched |-> FALSE]
       ELSE LET p == Min(starts)
                q == Min(thens(p))
                r == Min(ends(q))
            IN [matched |-> TRUE,
                conditionBlock |-> SubSeq(s, p + Len(IfOpen), q - 1),
                source |-> SubSeq(s, q + Len(ThenOpen), r - 1)]

\* The alternation (\>|\<\=\=|\!\=\contains|\is empty) of ruleRegex as written:
\* '>', '<==', '!=' followed by the control character \co and 'ntains', 'is empty'.
regexOperators == << <<">">>, <<"<", "=", "=">>, <<"!", "=", "\\cOntains">>, <<"is", " ", "empty">> >>
operatorAt(s, i) ==
    IF \E a \in 1..Len(regexOperators) : MatchAt(s, regexOperators[a], i)
    THEN regexOperators[Min({ a \in 1..Len(regexOperators) : MatchAt(s, regexOperators[a], i) })]
    ELSE <<>>

RECURSIVE skipSpaces(_, _)
skipSpaces(s, i) == IF i <= Len(s) /\ s[i] = " " THEN skipSpaces(s, i + 1) ELSE i

\* One ruleRegex.exec(conditionBlock) from lastIndex:
\* /(.*?)\s*(op)\s*(.*?)\s*(AND|OR|$)/g
ruleExec(s, lastIndex) ==
    LET ops == { o \in lastIndex..Len(s) : operatorAt(s, o) # <<>> }
    IN IF ops = {} THEN [matched |-> FALSE]
       ELSE LET o == Min(ops)
                operator == operatorAt(s, o)
                v == skipSpaces(s, o + Len(operator))
                joins == { w \in v..Len(s) : s[w] \in {"AND", "OR"} }
                w == IF joins = {} THEN Len(s) + 1 ELSE Min(joins)
            IN [matched |-> TRUE,
                field |-> trimEnd(SubSeq(s, lastIndex, o - 1)),
                operator |-> operator,
                val |-> trimEnd(SubSeq(s, v, w - 1)),
                logic |-> IF w <= Len(s) THEN s[w] ELSE "",
                lastIndex |-> IF w <= Len(s) THEN w + 1 ELSE Len(s) + 1]

\* while ((ruleMatch = ruleRegex.exec(conditionBlock)) !== null) { ... }
RECURSIVE execLoop(_, _, _)
execLoop(s, lastIndex, conditions) ==
    LET m == ruleExec(s, lastIndex)
    IN IF ~m.matched THEN conditions
       ELSE execLoop(s, m.lastIndex,
                     IF m.field # <<>>
                     THEN Append(conditions,
                                 Condition(trim(m.field), trim(m.operator), Str(trim(m.val)),
                                           IF m.logic # "" THEN m.logic ELSE "END"))
                     ELSE conditions)

\* The parse with the last condition's logic left as the loop recorded it.
fixLastLogicSkipped(conditions) == conditions

\* if (conditions.length > 0) conditions[conditions.length - 1].logic = 'END'
fixLastLogic(conditions) ==
    [i \in 1..Len(conditions) |->
        IF i = Len(conditions) THEN [conditions[i] EXCEPT !.logic = "END"] ELSE conditions[i]]

parseConditions(conditionBlock) == fixLastLogic(execLoop(conditionBlock, 1, <<>>))

\* value.slice(1, -1) of a placeholder value, keeping the closing bracket.
placeholderSourceOffByOne(s) == SubSeq(s, 2, Len(s))

\* const source = value.slice(1, -1)
placeholderSource(s) == slice1(s)

\* The body of `for (const key in json)` for one key; acc is [threw, list].
parseEntry(acc, e) ==
    IF acc.threw \/ startsWith(e.k, "@") \/ startsWith(e.k, CommentToken) THEN acc
    ELSE
      LET afterText ==
              IF IsPlaceholder(e.v)
              THEN Append(acc.list, Mapping(Len(acc.list) + 1, placeholderSource(e.v.s),
                                            e.k, "Text", <<>>))
              ELSE acc.list
      IN IF e.k # ReviewKey \/ e.v.t \notin {"obj", "null"} THEN [acc EXCEPT !.list = afterText]
         ELSE IF e.v.t = "null" THEN [acc EXCEPT !.threw = TRUE]   \* null.ratingValue_Rule
         ELSE IF ~Truthy(Get(e.v.o, RuleKey)) THEN [acc EXCEPT !.list = afterText]
         ELSE IF Get(e.v.o, RuleKey).t # "str" THEN [acc EXCEPT !.threw = TRUE]  \* no .match
         ELSE LET match == envelopeMatch(Get(e.v.o, RuleKey).s)
              IN IF ~match.matched THEN [acc EXCEPT !.list = afterText]
                 ELSE [acc EXCEPT !.list =
                         Append(afterText,
                                Mapping(Len(afterText) + 1, match.source, e.k, "Condition",
                                        parseConditions(match.conditionBlock)))]

RECURSIVE parseEntries(_, _, _)
parseEntries(acc, json, i) ==
    IF i > Len(json) THEN acc ELSE parseEntries(parseEntry(acc, json[i]), json, i + 1)

False == Bool(FALSE)

parseJsonToMappings(jsonString) ==
    IF jsonString.t # "obj" THEN False     \* JSON.parse or Object.keys throws: catch, return false
    ELSE LET r == parseEntries([threw |-> FALSE, list |-> <<>>], jsonString.o, 1)
         IN IF r.threw THEN False
            ELSE IF Len(r.list) = 0 /\ Len(jsonString.o) > 2 THEN Arr(defaultMappings)
            ELSE IF Len(r.list) > 0 THEN Arr(r.list) ELSE False

----------------------------------------------------------------------------
(* The renderer as a system: a deployed rule set, one storefront request *)

DSI_API_KEY == "dsi_api_key_for_client_requests"
NoCondition == [field |-> <<>>, operator |-> <<>>, value |-> Undefined]
NoResponse == [status |-> 0]
NoRules == [jsonLdTemplate |-> Undefined, mappings |-> Undefined]
NoData == << >>

NoBody == [appId |-> ""]
Body(productData) == [appId |-> "default-app-id", productData |-> productData]
HasProductData(b) == "productData" \in DOMAIN b

IdleEvaluator == condition = NoCondition /\ data = NoData /\ evalResult = [returned |-> FALSE]
IdleServer == body = NoBody /\ rulesData = NoRules /\ response = NoResponse
IdleEditor == mappings = <<>> /\ rawJsonLd = Undefined /\ synced = Undefined
IdleMapper == nextId = 1 /\ modalMapping = Null /\ rules = <<>> /\ opened = Null

InitRender ==
    /\ pc = "request"
    /\ rulesData \in RulesDatas
    /\ body \in { Body(d) : d \in DataRecords } \cup { [appId |-> "default-app-id"] }
    /\ response = NoResponse
    /\ IdleEvaluator
    /\ IdleEditor
    /\ IdleMapper

\* app.post('/api/dsi/schema')
PostSchema ==
    /\ pc = "request"
    /\ \E clientApiKey \in {DSI_API_KEY, "stale_key"} :
          response' =
              IF clientApiKey # DSI_API_KEY
              THEN [status |-> 401, error |-> "Unauthorized: Invalid API Key"]
              ELSE IF ~HasProductData(body)
              THEN [status |-> 400, error |-> "Missing required parameters (appId or productData)"]
              ELSE Respond(body.productData, rulesData)
    /\ pc' = "done"
    /\ UNCHANGED <<condition, data, evalResult, body, rulesData, mappings, rawJsonLd, synced>>
    /\ UNCHANGED <<nextId, modalMapping, rules, opened>>

\* A direct call of evaluateCondition(field, operator, value, data).
EvalFields == { W("review_count"), W("average_rating"), W("inventory_quantity"), W("product.title") }
EvalOperators == { mockOperators[i] : i \in 1..Len(mockOperators) } \cup { W("matches") }
EvalLiterals ==
    { Num(50), Num(45), Str(W("5")), Str(<<>>), Str(W("OmniGraph Pro Widget")),
      Str(<<"5", " ", "stars">>), Null, Obj(<<>>) }
NotReturned == [returned |-> FALSE]

InitEvaluate ==
    /\ pc = "evaluate"
    /\ condition \in [field : EvalFields, operator : EvalOperators, value : EvalLiterals]
    /\ data \in DataRecords
    /\ evalResult = NotReturned
    /\ IdleServer
    /\ IdleEditor
    /\ IdleMapper

Evaluate ==
    /\ pc = "evaluate"
    /\ evalResult' = [returned |-> TRUE,
                       value |-> evaluateCondition(condition.field, condition.operator,
                                                   condition.value, data)]
    /\ pc' = "done"
    /\ UNCHANGED <<condition, data, body, rulesData, response, mappings, rawJsonLd, synced>>
    /\ UNCHANGED <<nextId, modalMapping, rules, opened>>

NextEvaluate == Evaluate
SpecEvaluate == InitEvaluate /\ [][NextEvaluate]_vars

\* The editor: a mapping set is compiled to the JSON-LD text, and the text is
\* parsed back into a mapping set ("Sync Mapper from Code").
MaxMappings == 2        \* largest mapping set drawn

\* Rules as the RuleModal leaves them (values are the text of the input box):
\* one single-condition rule on 'review' per operator of mockOperators, a chain
\* joined by OR (as a sync from hand-written text leaves it), a rule whose
\* source was cleared after its conditions were set, a source without a target,
\* and a conditional rule on a target other than 'review'.
OperatorSamples ==
    << Condition(W("review_count"), OpGt, Str(W("5")), "END"),
       Condition(W("review_count"), OpLt, Str(W("5")), "END"),
       Condition(W("product.vendor"), OpEq, Str(W("Acme")), "END"),
       Condition(W("product.vendor"), OpNe, Str(W("Acme")), "END"),
       Condition(W("product.tags"), OpContains, Str(W("sale")), "END"),
       Condition(W("product.tags"), OpIsEmpty, Str(<<>>), "END") >>
OrChain ==
    << Condition(W("review_count"), OpGt, Str(W("5")), "OR"),
       Condition(W("average_rating"), OpGt, Str(W("4.5")), "END") >>
ConditionalPool ==
    { Mapping(0, W("average_rating"), ReviewKey, "Condition", <<OperatorSamples[i]>>) :
        i \in 1..Len(OperatorSamples) }
    \cup { Mapping(0, W("average_rating"), ReviewKey, "Condition", OrChain),
           Mapping(0, <<>>, ReviewKey, "Condition", <<OperatorSamples[1]>>),
           Mapping(0, W("current_price"), <<>>, "Text", <<>>),
           Mapping(0, W("inventory_quantity"), W("availability"), "Condition",
                   << Condition(W("inventory_quantity"), OpGt, Str(W("0")), "END") >>) }

\* Texts typed into the raw editor before a sync.
OrRuleText ==
    <<"IF", " ", "(", "review_count", " ", ">", " ", "5", " ", "OR", " ",
      "average_rating", " ", ">", " ", "4.5", ")", " ", "THEN", " ",
      "[", "average_rating", "]", " ", "ELSE", " ", "[", "NULL", "]">>
TrailingJoinRuleText ==
    <<"IF", " ", "(", "review_count", " ", ">", " ", "5", " ", "AND", ")", " ", "THEN", " ",
      "[", "average_rating", "]", " ", "ELSE", " ", "[", "NULL", "]">>
Skeleton == << productSchema[1], productSchema[2] >>
HandDocs ==
    { Obj(Put(productSchema, ReviewKey, Review(OrRuleText))),
      Obj(Put(productSchema, ReviewKey, Review(TrailingJoinRuleText))),
      Obj(Put(productSchema, ReviewKey, Review(MalformedRuleText))),
      Obj(jsonLdTemplate),
      Obj(Skeleton),
      MalformedJson }

RulePool ==
    { Mapping(0, src, tgt, "Text", <<>>) :
        src \in { W("product.metafields.custom.isbn"), W("current_price") },
        tgt \in { W("identifier"), W("price") } }
    \cup { Mapping(0, W("average_rating"), ReviewKey, "Text", <<>>),
           Mapping(0, <<>>, <<>>, "Text", <<>>),
           Mapping(0, W("average_rating"), ReviewKey, "Condition",
                   << Condition(W("review_count"), OpGt, Num(50), "AND"),
                      Condition(W("average_rating"), OpGt, Num(45), "END") >>) }
    \cup ConditionalPool
\* Mapping sets with ids 1..n, as addMapping and parseJsonToMappings number them.
MappingSets ==
    UNION { { [i \in 1..n |-> [pool[i] EXCEPT !.id = i]] : pool \in [1..n -> RulePool] } :
            n \in 0..MaxMappings }

InitEditor ==
    /\ pc = "generate"
    /\ mappings \in MappingSets
    /\ rawJsonLd = Undefined
    /\ synced = Undefined
    /\ IdleEvaluator
    /\ IdleServer
    /\ IdleMapper

\* jsonLdOutput = generateJsonLd(mappings)
Generate ==
    /\ pc = "generate"
    /\ rawJsonLd' = generateJsonLd(mappings)
    /\ pc' = "parse"
    /\ UNCHANGED <<condition, data, evalResult, body, rulesData, response, mappings, synced>>
    /\ UNCHANGED <<nextId, modalMapping, rules, opened>>

\* The raw editor's textarea: setRawJsonLd(e.target.value)
EditRaw ==
    /\ pc = "parse"
    /\ rawJsonLd' \in HandDocs
    /\ pc' = "edited"
    /\ UNCHANGED <<condition, data, evalResult, body, rulesData, response, mappings, synced>>
    /\ UNCHANGED <<nextId, modalMapping, rules, opened>>

\* parseJsonToMappings(rawJsonLd): on the generated text ("done") or on the
\* text as edited by hand ("resynced").
Sync ==
    /\ pc \in {"parse", "edited"}
    /\ synced' = parseJsonToMappings(rawJsonLd)
    /\ pc' = IF pc = "parse" THEN "done" ELSE "resynced"
    /\ UNCHANGED <<condition, data, evalResult, body, rulesData, response, mappings, rawJsonLd>>
    /\ UNCHANGED <<nextId, modalMapping, rules, opened>>

NextEditor == Generate \/ EditRaw \/ Sync
SpecEditor == InitEditor /\ [][NextEditor]_vars

----------------------------------------------------------------------------
(* part_001: NodeMapper *)

MaxId == 4              \* addMapping is not taken once nextId exceeds it

Max(S) == CHOOSE x \in S : \A y \in S : x >= y
Ids(ms) == { ms[i].id : i \in 1..Len(ms) }

\* useState(mappings.length > 0 ? Math.max(...mappings.map(m => m.id)) + 1 : 1)
initialNextId(ms) == IF Len(ms) > 0 THEN Max(Ids(ms)) + 1 ELSE 1

\* The effect on [mappings] with the counter set to the number of mappings plus one.
nextIdEffectByLength(ms, current) == IF Len(ms) > 0 THEN Len(ms) + 1 ELSE current

\* useEffect(() => { if (mappings.length > 0) setNextId(max + 1) }, [mappings])
nextIdEffect(ms, current) == IF Len(ms) > 0 THEN Max(Ids(ms)) + 1 ELSE current

\* mappings.map(m => m.id === id ? { ...m, conditions: newConditions, type: 'Condition' } : m)
updateConditions(ms, id, newConditions) ==
    [i \in 1..Len(ms) |->
        IF ms[i].id = id
        THEN [ms[i] EXCEPT !.conditions = newConditions, !.type = "Condition"]
        ELSE ms[i]]

\* Mapping sets the mapper is handed: none, the defaults, ids out of order.
MapperSets ==
    { <<>>,
      defaultMappings,
      << Mapping(3, W("product.metafields.custom.isbn"), W("identifier"), "Text", <<>>),
         Mapping(1, W("average_rating"), ReviewKey, "Text", <<>>) >> }

\* { ...m, [field]: value } from the source and target selectors of a row
MappingEdits ==
    { [field |-> "source", value |-> W("current_price")],
      [field |-> "target", value |-> W("price")] }
withSelection(m, e) ==
    CASE e.field = "source" -> [m EXCEPT !.source = e.value]
      [] e.field = "target" -> [m EXCEPT !.target = e.value]

InitMapper ==
    /\ pc = "mapper"
    /\ mappings \in MapperSets
    /\ nextId = initialNextId(mappings)
    /\ modalMapping = Null
    /\ rules = <<>>
    /\ opened = Null
    /\ rawJsonLd = Undefined
    /\ synced = Undefined
    /\ IdleEvaluator
    /\ IdleServer

\* addMapping, then the effect on [mappings]
addMapping ==
    /\ pc = "mapper"
    /\ Len(mappings) < MaxMappings
    /\ nextId <= MaxId
    /\ mappings' = Append(mappings, Mapping(nextId, <<>>, <<>>, "Text", <<>>))
    /\ nextId' = nextIdEffect(mappings', nextId + 1)
    /\ UNCHANGED <<pc, condition, data, evalResult, body, rulesData, response, rawJsonLd, synced,
                   modalMapping, rules, opened>>

\* updateMapping(id, field, value), then the effect on [mappings]
updateMapping ==
    /\ pc = "mapper"
    /\ \E row \in 1..Len(mappings), e \in MappingEdits :
          mappings' = [i \in 1..Len(mappings) |->
                          IF mappings[i].id = mappings[row].id
                          THEN withSelection(mappings[i], e)
                          ELSE mappings[i]]
    /\ nextId' = nextIdEffect(mappings', nextId)
    /\ UNCHANGED <<pc, condition, data, evalResult, body, rulesData, response, rawJsonLd, synced,
                   modalMapping, rules, opened>>

\* deleteMapping(id), then the effect on [mappings]
deleteMapping ==
    /\ pc = "mapper"
    /\ \E row \in 1..Len(mappings) :
          LET keep(m) == m.id # mappings[row].id
          IN mappings' = SelectSeq(mappings, keep)
    /\ nextId' = nextIdEffect(mappings', nextId)
    /\ UNCHANGED <<pc, condition, data, evalResult, body, rulesData, response, rawJsonLd, synced,
                   modalMapping, rules, opened>>

\* "Sync Mapper from Code": parseJsonToMappings on the text of the raw editor,
\* the generated one or one typed by hand.
SyncFromCode ==
    /\ pc = "mapper"
    /\ rawJsonLd' \in {generateJsonLd(mappings)} \cup HandDocs
    /\ synced' = parseJsonToMappings(rawJsonLd')
    /\ pc' = "synced"
    /\ UNCHANGED <<condition, data, evalResult, body, rulesData, response, mappings,
                   nextId, modalMapping, rules, opened>>

NextMapper == addMapping \/ updateMapping \/ deleteMapping \/ SyncFromCode
SpecMapper == InitMapper /\ [][NextMapper]_vars

----------------------------------------------------------------------------
(* part_001: RuleModal, opened from a row of the NodeMapper *)

\* An element of the modal's rule list: the condition object c and, when that
\* object is the very object held at mapping.conditions[ref] (the list starts as
\* mapping.conditions, and spread, filter and map copy the array, not its
\* elements), its index there; ref = 0 for an object only the modal holds.
Shared(ref, c) == [ref |-> ref, c |-> c]
Own(c) == [ref |-> 0, c |-> c]
RuleList(rs) == [k \in 1..Len(rs) |-> rs[k].c]

\* { field: mockSources[0], operator: mockOperators[0], value: '', logic: 'END' }
NewRule == Condition(W("product.metafields.custom.isbn"), OpGt, Str(<<>>), "END")

\* The modal open on a row of the mapper.
OpenOn(row) == [t |-> "ref", row |-> row]

\* obj.logic = logic on the element k of a rule list: the write lands in the
\* object, so in mapping.conditions as well when the object is shared.
assignLogic(rs, k, logic) == [rs EXCEPT ![k].c.logic = logic]
assignLogicThrough(ms, row, ref, logic) ==
    IF ref = 0 THEN ms ELSE [ms EXCEPT ![row].conditions[ref].logic = logic]

\* rules.filter((_, i) => i !== index)
filterOut(rs, index) == SubSeq(rs, 1, index - 1) \o SubSeq(rs, index + 1, Len(rs))

\* deleteRule without the write of 'END' on the new last rule.
rulesAfterDeleteUnmarked(rs, index) == filterOut(rs, index)

\* deleteRule: the filtered list with the new last rule marked 'END'.
rulesAfterDelete(rs, index) ==
    LET newRules == filterOut(rs, index)
    IN IF Len(newRules) > 0 THEN assignLogic(newRules, Len(newRules), "END") ELSE newRules

\* { ...rule, [field]: value }
RuleEdits ==
    { [field |-> "field", value |-> W("review_count")],
      [field |-> "operator", value |-> OpLt],
      [field |-> "value", value |-> Str(W("5"))] }
withField(c, e) ==
    CASE e.field = "field" -> [c EXCEPT !.field = e.value]
      [] e.field = "operator" -> [c EXCEPT !.operator = e.value]
      [] e.field = "value" -> [c EXCEPT !.value = e.value]

\* The mapper rows the modal is opened from: the ISBN row (no conditions yet)
\* and a conditional row with a chain.
ModalChains ==
    { c \in Chains : \A i \in 1..Len(c) : c[i].field = W("review_count") /\ c[i].operator = OpGt }
ModalSets ==
    { <<IsbnMapping, Mapping(2, W("average_rating"), ReviewKey, "Condition", c)>> :
        c \in ModalChains }

InitModal ==
    /\ pc = "row"
    /\ mappings \in ModalSets
    /\ nextId = initialNextId(mappings)
    /\ modalMapping = Null
    /\ rules = <<>>
    /\ opened = Null
    /\ rawJsonLd = Undefined
    /\ synced = Undefined
    /\ IdleEvaluator
    /\ IdleServer

\* onClick={() => setModalMapping(mapping)}: the RuleModal mounts with
\* useState(mapping.conditions || []) and its effect puts one rule in an empty list.
setModalMapping ==
    /\ pc = "row"
    /\ \E row \in 1..Len(mappings) :
          /\ mappings[row].target # <<>> /\ mappings[row].source # <<>>
          /\ modalMapping' = OpenOn(row)
          /\ opened' = mappings[row]
          /\ rules' = IF Len(mappings[row].conditions) = 0
                      THEN << Own(NewRule) >>
                      ELSE [k \in 1..Len(mappings[row].conditions) |->
                              Shared(k, mappings[row].conditions[k])]
    /\ pc' = "modal"
    /\ UNCHANGED <<condition, data, evalResult, body, rulesData, response, mappings, rawJsonLd,
                   synced, nextId>>

addRule ==
    /\ pc = "modal"
    /\ Len(rules) < MaxConditions
    /\ LET n == Len(rules)
           newRules == IF n > 0 THEN assignLogic(rules, n, "AND") ELSE rules
       IN /\ rules' = Append(newRules, Own(NewRule))
          /\ mappings' = IF n > 0
                         THEN assignLogicThrough(mappings, modalMapping.row, rules[n].ref, "AND")
                         ELSE mappings
    /\ UNCHANGED <<pc, condition, data, evalResult, body, rulesData, response, rawJsonLd, synced,
                   nextId, modalMapping, opened>>

updateRule ==
    /\ pc = "modal"
    /\ \E index \in 1..Len(rules), e \in RuleEdits :
          rules' = [rules EXCEPT ![index] = Own(withField(rules[index].c, e))]
    /\ UNCHANGED <<pc, condition, data, evalResult, body, rulesData, response, mappings, rawJsonLd,
                   synced, nextId, modalMapping, opened>>

deleteRule ==
    /\ pc = "modal"
    /\ \E index \in 1..Len(rules) :
          LET newRules == rulesAfterDelete(rules, index)
          IN /\ rules' = newRules
             /\ mappings' = IF Len(newRules) > 0
                            THEN assignLogicThrough(mappings, modalMapping.row,
                                                    newRules[Len(newRules)].ref, "END")
                            ELSE mappings
    /\ UNCHANGED <<pc, condition, data, evalResult, body, rulesData, response, rawJsonLd, synced,
                   nextId, modalMapping, opened>>

\* Apply Rules: onSave(mapping.id, rules); onClose()
handleSave ==
    /\ pc = "modal"
    /\ mappings' = updateConditions(mappings, mappings[modalMapping.row].id, RuleList(rules))
    /\ nextId' = nextIdEffect(mappings', nextId)
    /\ modalMapping' = Null
    /\ rules' = <<>>
    /\ pc' = "applied"
    /\ UNCHANGED <<condition, data, evalResult, body, rulesData, response, rawJsonLd, synced, opened>>

\* Cancel: onClose() alone
onClose ==
    /\ pc = "modal"
    /\ modalMapping' = Null
    /\ rules' = <<>>
    /\ pc' = "cancelled"
    /\ UNCHANGED <<condition, data, evalResult, body, rulesData, response, mappings, rawJsonLd,
                   synced, nextId, opened>>

NextModal == setModalMapping \/ addRule \/ updateRule \/ deleteRule \/ handleSave \/ onClose
SpecModal == InitModal /\ [][NextModal]_vars

NextRender == PostSchema
SpecRender == InitRender /\ [][NextRender]_vars

Spec == SpecRender

----------------------------------------------------------------------------
(* Properties of the renderer, stated on a finished request *)

\* processDsiSchema was called and returned a document.
Rendered == pc = "done" /\ response.status = 200
\* processDsiSchema was called (the request passed the key and parameter checks).
Processed == pc = "done" /\ response.status \in {200, 500}
Doc == response.schema
ProductData == body.productData

\* The deployed document holds the 'review' carrier and the mapping list holds a
\* conditional mapping on 'review' with a non-empty chain.
Gated ==
    /\ rulesData.jsonLdTemplate.t = "obj"
    /\ HasCarrier(rulesData.jsonLdTemplate.o)
    /\ rulesData.mappings.t = "arr"
    /\ findReviewMapping(rulesData.mappings.a) # Undefined
    /\ Len(findReviewMapping(rulesData.mappings.a).conditions) > 0
ReviewMapping == findReviewMapping(rulesData.mappings.a)
Chain == ReviewMapping.conditions
AndJoined(c) == \A i \in 1..(Len(c) - 1) : c[i].logic = "AND"
EveryConditionTrue(c, rec) ==
    \A i \in 1..Len(c) : evaluateCondition(c[i].field, c[i].operator, c[i].value, rec)
ReviewKept == Has(Doc, ReviewKey)
Rating == Get(Get(Doc, ReviewKey).o, RatingKey)
DefaultChain ==
    << Condition(W("review_count"), OpGt, Num(50), "AND"),
       Condition(W("average_rating"), OpGt, Num(45), "END") >>

\* C2: on an AND-joined chain (a single condition included) the rendered document
\* keeps 'review', with its ratingValue set, exactly when evaluateCondition is true
\* for every condition of the chain; otherwise it has no 'review' property.  With
\* the chain review_count > 5 AND average_rating > 4.5: review_count 10 and
\* average_rating 4.8 give ratingValue 4.8, review_count 3 gives no review.
C2_ConditionalGating ==
    (Rendered /\ Gated /\ AndJoined(Chain)) =>
        /\ IF EveryConditionTrue(Chain, ProductData)
           THEN ReviewKept /\ Rating # Undefined
           ELSE ~ReviewKept
        /\ (Chain = DefaultChain /\ Lookup(ProductData, W("average_rating")) = Num(48)) =>
              /\ Lookup(ProductData, W("review_count")) = Num(100)
                    => (ReviewKept /\ Rating = Num(48))
              /\ Lookup(ProductData, W("review_count")) = Num(30) => ~ReviewKept

C2_Witness_Kept ==
    /\ Rendered /\ Gated /\ Chain = DefaultChain
    /\ Lookup(ProductData, W("review_count")) = Num(100)
    /\ ReviewKept /\ Rating = Num(48)

\* C3: a condition on a field that the data record lacks is false for every
\* operator and literal, so a chain holding such a condition (review_count > 5 AND
\* average_rating > 4.5 against a record without review_count) always renders
\* with the 'review' property removed.
C3_MissingFieldFailClosed ==
    /\ (pc = "done" /\ HasProductData(body)) =>
          \A f \in EvalFields \ DOMAIN ProductData, op \in EvalOperators, v \in EvalLiterals :
              ~evaluateCondition(f, op, v, ProductData)
    /\ (Rendered /\ Gated /\ \E i \in 1..Len(Chain) : Chain[i].field \notin DOMAIN ProductData)
          => ~ReviewKept

C3_Witness_Removed ==
    /\ Rendered /\ Gated /\ Chain = DefaultChain
    /\ W("review_count") \notin DOMAIN ProductData
    /\ Lookup(ProductData, W("average_rating")) = Num(48)
    /\ ~ReviewKept

\* C4: every call of processDsiSchema returns a rendered document: no exception
\* escapes it, whatever the deployed document and mapping list.
C4_RenderIsTotal == Processed => response.status = 200

\* C5: the rendered document holds, at any depth, no '[<path>]' placeholder string
\* and no rule-carrier key.
RECURSIVE HasPlaceholderWithin(_)
HasPlaceholderWithin(v) ==
    \/ IsPlaceholder(v)
    \/ v.t = "obj" /\ \E i \in 1..Len(v.o) : HasPlaceholderWithin(v.o[i].v)
RECURSIVE HasRuleKeyWithin(_)
HasRuleKeyWithin(v) ==
    v.t = "obj" /\ \E i \in 1..Len(v.o) : v.o[i].k = RuleKey \/ HasRuleKeyWithin(v.o[i].v)
RECURSIVE HasCommentKeyWithin(_)
HasCommentKeyWithin(v) ==
    v.t = "obj" /\ \E i \in 1..Len(v.o) :
                      startsWith(v.o[i].k, CommentToken) \/ HasCommentKeyWithin(v.o[i].v)
C5_FullyMaterialized ==
    Rendered => ~HasPlaceholderWithin(Obj(Doc)) /\ ~HasRuleKeyWithin(Obj(Doc))

\* C6: a malformed rule-carrier string ('IF (garbage') does not make the render
\* fail, and its carrier object is dropped from the output as if the chain were false.
MalformedCarrier ==
    /\ rulesData.jsonLdTemplate.t = "obj"
    /\ HasCarrier(rulesData.jsonLdTemplate.o)
    /\ Get(Get(rulesData.jsonLdTemplate.o, ReviewKey).o, RuleKey) = Str(MalformedRuleText)
C6_MalformedCarrierDropped ==
    (Processed /\ MalformedCarrier /\ rulesData.mappings.t = "arr")
        => (Rendered /\ ~ReviewKept)

\* C7 as stated: the chain is evaluated left to right with each condition's own
\* join, OR being true as soon as one operand is, and 'review' is kept exactly
\* when that evaluation is true.
C7_JoinsHonoured ==
    (Rendered /\ Gated) => (ReviewKept <=> isMetJoined(Chain, ProductData))

\* C7 as amended: the join tokens are not read; every chain is evaluated left to
\* right as if all its joins were AND, so 'c1 OR c2' with c1 false and c2 true
\* evaluates false and the carrier object is removed.
ForceAnd(c) == [i \in 1..Len(c) |-> [c[i] EXCEPT !.logic = IF i = Len(c) THEN "END" ELSE "AND"]]
C7_EveryJoinIsAnd ==
    (Rendered /\ Gated) =>
        /\ ReviewKept <=> isMetJoined(ForceAnd(Chain), ProductData)
        /\ ReviewKept => Rating # Undefined

C7_Witness_OrRemoved ==
    /\ Rendered /\ Gated /\ Len(Chain) = 2 /\ Chain[1].logic = "OR"
    /\ ~evaluateCondition(Chain[1].field, Chain[1].operator, Chain[1].value, ProductData)
    /\ evaluateCondition(Chain[2].field, Chain[2].operator, Chain[2].value, ProductData)
    /\ ~ReviewKept

\* C8: when the chain is true, review.ratingValue is the data record's value for
\* the rule's source path whenever the path is present (0, '' and false included),
\* and the default only when the path is absent.
C8_ResultValue ==
    (Rendered /\ Gated /\ ReviewKept) =>
        Rating = IF ReviewMapping.source \in DOMAIN ProductData
                 THEN ProductData[ReviewMapping.source]
                 ELSE DefaultRating

\* C9: no rule-carrier key and no '_comment' key is left anywhere in the rendered
\* tree, at the top level or in a nested object.
C9_ProvenanceStripped ==
    Rendered => ~HasCommentKeyWithin(Obj(Doc)) /\ ~HasRuleKeyWithin(Obj(Doc))

----------------------------------------------------------------------------
(* Properties of the condition evaluator, stated on a finished call *)

\* The operators as the grammar defines them.
IsSubstring(l, s) == \E i \in 1..(Len(s) - Len(l) + 1) : SubSeq(s, i, i + Len(l) - 1) = l
ReferenceEvaluate(c, rec) ==
    LET dataValue == rec[c.field]
    IN CASE c.operator = OpGt -> NumGt(parseFloat(dataValue), parseFloat(c.value))
         [] c.operator = OpLt -> NumLt(parseFloat(dataValue), parseFloat(c.value))
         [] c.operator = OpEq -> String(dataValue) = String(c.value)
         [] c.operator = OpNe -> String(dataValue) # String(c.value)
         [] c.operator = OpContains -> IsSubstring(String(c.value), String(dataValue))
         [] c.operator = OpIsEmpty -> String(dataValue) = <<>>
         [] OTHER -> FALSE

\* C10: on a present field, evaluateCondition agrees with the grammar's operators:
\* '==' string equality, '!=' string inequality, 'contains' substring test,
\* 'is empty' zero length, '>' and '<' numeric comparison.
C10_OperatorSemantics ==
    (pc = "done" /\ evalResult.returned /\ condition.field \in DOMAIN data) =>
        evalResult.value = ReferenceEvaluate(condition, data)

\* C11: evaluateCondition returns a boolean (no exception escapes it) for every
\* field, operator and literal, well-formed or not, against a data record; for
\* '>' and '<' it returns false whenever parseFloat of the field value or of the
\* literal is NaN.
C11_NeverRaisesNaNFalse ==
    pc = "done" =>
        /\ evalResult.returned
        /\ evalResult.value \in BOOLEAN
        /\ ( /\ condition.operator \in {OpGt, OpLt}
             /\ \/ parseFloat(Lookup(data, condition.field)) = NaN
                \/ parseFloat(condition.value) = NaN )
              => evalResult.value = FALSE

\* 'product.title < 5': the field value is present and is not a number.
C11_Witness_NonNumericField ==
    /\ pc = "done"
    /\ condition.operator = OpLt
    /\ condition.field = W("product.title")
    /\ condition.value = Num(50)
    /\ evalResult.returned /\ evalResult.value = FALSE

----------------------------------------------------------------------------
(* Properties of compile followed by parse, stated when both are done *)

Core(m) == [source |-> m.source, target |-> m.target, type |-> m.type,
            conditions |-> m.conditions]
\* The same rules up to ids and order.
SameRules(a, b) ==
    /\ Len(a) = Len(b)
    /\ \E f \in [1..Len(a) -> 1..Len(b)] :
          /\ \A i, j \in 1..Len(a) : f[i] = f[j] => i = j
          /\ \A i \in 1..Len(a) : Core(a[i]) = Core(b[f[i]])
PlainRules(ms) ==
    \A i \in 1..Len(ms) : ms[i].type = "Text" /\ ms[i].source # <<>> /\ ms[i].target # <<>>
DistinctTargets(ms) ==
    /\ \A i, j \in 1..Len(ms) : ms[i].target = ms[j].target => i = j
    /\ \A i \in 1..Len(ms) :
          ~startsWith(ms[i].target, "@") /\ ~startsWith(ms[i].target, CommentToken)

\* C1 as stated: for every mapping set of Text rules with non-empty source and
\* target, parsing the generated document returns exactly its rules, up to ids and order.
C1_RoundTrip ==
    (pc = "done" /\ PlainRules(mappings)) =>
        (synced.t = "arr" /\ SameRules(synced.a, mappings))

\* C1 as amended: the same for every NON-EMPTY mapping set of Text rules (no
\* conditions) with non-empty source and target whose targets are PAIRWISE
\* DISTINCT and start with neither '@' nor '_comment'.
C1_RoundTripDistinctTargets ==
    (pc = "done" /\ PlainRules(mappings) /\ mappings # <<>> /\ DistinctTargets(mappings)) =>
        (synced.t = "arr" /\ SameRules(synced.a, mappings))

C1_Witness_TwoRules ==
    /\ pc = "done" /\ PlainRules(mappings) /\ DistinctTargets(mappings)
    /\ Len(mappings) = 2
    /\ synced.t = "arr" /\ Len(synced.a) = 2 /\ synced.a[1].source = mappings[1].source

\* The generated text is in rawJsonLd (compiled, not yet edited by hand).
Generated == pc \in {"parse", "done"}
\* parseJsonToMappings has returned, on the generated text or on a hand-edited one.
Parsed == pc \in {"done", "resynced"}
RemoveAt(ms, i) == SubSeq(ms, 1, i - 1) \o SubSeq(ms, i + 1, Len(ms))

\* C12: a rule of any type whose source or target is empty contributes nothing to
\* the generated document: the document is the one generated from the mapping
\* set without that rule (no target property, no rule carrier, no comment marker).
C12_CompileSkip ==
    Generated =>
        \A i \in 1..Len(mappings) :
            (mappings[i].source = <<>> \/ mappings[i].target = <<>>) =>
                rawJsonLd = generateJsonLd(RemoveAt(mappings, i))

\* The rule string of the grammar: 'field operator value' predicates, the join
\* token of each condition after it, nothing after the terminal condition.
RECURSIVE JoinLiteral(_, _)
JoinLiteral(conditions, i) ==
    LET c == conditions[i]
        p == c.field \o <<" ">> \o c.operator \o <<" ">> \o String(c.value)
    IN IF i = Len(conditions) THEN p
       ELSE p \o <<" ", c.logic, " ">> \o JoinLiteral(conditions, i + 1)
ExpectedRuleText(m) ==
    IfOpen \o JoinLiteral(m.conditions, 1) \o CloseThen
      \o <<"[">> \o m.source \o <<"]">> \o ElseNull
\* A text with the spaces before another space or before ')' left out.
RECURSIVE Squeeze(_)
Squeeze(t) ==
    IF t = <<>> THEN <<>>
    ELSE IF t[1] = " " /\ Len(t) >= 2 /\ t[2] \in {" ", ")"} THEN Squeeze(Tail(t))
    ELSE <<t[1]>> \o Squeeze(Tail(t))

\* C13: every Conditional rule with a non-empty chain, source and target (the
\* last rule written on its target) is written under its own target as an object
\* whose rule carrier is 'IF (p1 j1 p2 ... pn) THEN [source] ELSE [NULL]' with the
\* join token of each condition between the predicates and none after the last
\* (compared up to surplus spaces), and a comment marker holds the condition count.
C13_ConditionalCompiled ==
    Generated =>
        \A i \in 1..Len(mappings) :
            LET m == mappings[i]
                v == Get(rawJsonLd.o, m.target)
                marker == Get(rawJsonLd.o, CommentKey("_rule_", m.id))
            IN ( /\ m.type = "Condition" /\ m.conditions # <<>>
                 /\ m.source # <<>> /\ m.target # <<>>
                 /\ \A j \in (i + 1)..Len(mappings) : mappings[j].target # m.target ) =>
                    /\ v.t = "obj"
                    /\ Get(v.o, RuleKey).t = "str"
                    /\ Squeeze(Get(v.o, RuleKey).s) = Squeeze(ExpectedRuleText(m))
                    /\ marker.t = "str"
                    /\ \E k \in 1..Len(marker.s) : marker.s[k] = ToString(Len(m.conditions))

ConditionalRules(ms) == { i \in 1..Len(ms) : ms[i].type = "Condition" /\ ms[i].conditions # <<>> }
ChainEndsOnce(c) == c[Len(c)].logic = "END" /\ \A k \in 1..(Len(c) - 1) : c[k].logic # "END"

\* C14: every Conditional rule returned by parseJsonToMappings with a non-empty
\* conditions sequence has logic 'END' on its last condition and on no other,
\* whatever join text the rule string held (an OR, a join after the last predicate).
C14_ParsedChainEndsOnce ==
    (Parsed /\ synced.t = "arr") =>
        \A i \in ConditionalRules(synced.a) : ChainEndsOnce(synced.a[i].conditions)

\* A hand-written 'c1 OR c2' is synced: two conditions, OR then END.
C14_Witness_OrChainParsed ==
    /\ pc = "resynced" /\ synced.t = "arr"
    /\ Get(Get(rawJsonLd.o, ReviewKey).o, RuleKey) = Str(OrRuleText)
    /\ \E i \in ConditionalRules(synced.a) :
          /\ Len(synced.a[i].conditions) = 2
          /\ synced.a[i].conditions[1].logic = "OR"
          /\ synced.a[i].conditions[2].logic = "END"

\* What the loop over the document's keys recovered, before the fallback.
Recovered == parseEntries([threw |-> FALSE, list |-> <<>>], rawJsonLd.o, 1)

\* C15: when no mapping is recovered from a document with more than two
\* properties, parseJsonToMappings returns a failure outcome, not a mapping set,
\* and not the outcome of a document that has no mapping to recover.
C15_ParseFailureDistinct ==
    ( /\ Parsed /\ rawJsonLd.t = "obj" /\ Len(rawJsonLd.o) > 2
      /\ ~Recovered.threw /\ Recovered.list = <<>> ) =>
        /\ synced.t # "arr"
        /\ synced # parseJsonToMappings(Obj(Skeleton))

\* C16: a single Conditional rule on 'review' with a non-empty source and a chain
\* over the operators of mockOperators comes back from compile then parse as one
\* Conditional rule with the same source and target and the same conditions in
\* order: field, operator and value (as text).
C16_ChainsSurvive ==
    ( /\ pc = "done" /\ Len(mappings) = 1
      /\ mappings[1].type = "Condition" /\ mappings[1].target = ReviewKey
      /\ mappings[1].source # <<>> /\ mappings[1].conditions # <<>> ) =>
        /\ synced.t = "arr" /\ Len(synced.a) = 1
        /\ synced.a[1].type = "Condition"
        /\ synced.a[1].source = mappings[1].source
        /\ synced.a[1].target = mappings[1].target
        /\ Len(synced.a[1].conditions) = Len(mappings[1].conditions)
        /\ \A k \in 1..Len(mappings[1].conditions) :
              /\ synced.a[1].conditions[k].field = mappings[1].conditions[k].field
              /\ synced.a[1].conditions[k].operator = mappings[1].conditions[k].operator
              /\ String(synced.a[1].conditions[k].value) = String(mappings[1].conditions[k].value)

----------------------------------------------------------------------------
(* Properties of the RuleModal and the NodeMapper *)

\* C17: from a mapping whose chain has 'END' on its last condition only (or has
\* no condition: the modal starts with one rule), after any sequence of addRule,
\* updateRule and deleteRule a non-empty rule list of the modal has logic 'END'
\* on its last rule and on no other.
C17_EditorChainEndsOnce ==
    (pc = "modal" /\ rules # <<>>) => ChainEndsOnce(RuleList(rules))

\* The last of two rules was deleted: the remaining one, AND before, is END now.
C17_Witness_DeletedLast ==
    /\ pc = "modal"
    /\ Len(opened.conditions) = 2 /\ opened.conditions[1].logic = "AND"
    /\ Len(rules) = 1 /\ rules[1].ref = 1 /\ rules[1].c.logic = "END"

\* C19: when the modal is closed through Cancel, whatever addRule, updateRule and
\* deleteRule did before, the conditions of the mapping it was opened on (field,
\* operator, value and logic of each) are what they were when it was opened.
C19_CancelKeepsConditions ==
    pc = "cancelled" =>
        \A i \in 1..Len(mappings) :
            mappings[i].id = opened.id => mappings[i].conditions = opened.conditions

UniquePositiveIds(ms) ==
    /\ \A i \in 1..Len(ms) : ms[i].id \in Nat /\ ms[i].id > 0
    /\ \A i, j \in 1..Len(ms) : ms[i].id = ms[j].id => i = j

\* C18: from a mapping set with pairwise distinct positive ids, after any
\* sequence of addMapping and deleteMapping (the nextId counter recomputed from
\* the mappings after each) all ids of the mapping set are positive and pairwise
\* distinct, and a new id is above every id in use; a mapping set returned by
\* parseJsonToMappings has the ids 1..n in order.
C18_IdsUnique ==
    pc \in {"mapper", "synced"} =>
        /\ UniquePositiveIds(mappings)
        /\ \A i \in 1..Len(mappings) : mappings[i].id < nextId
        /\ (pc = "synced" /\ synced.t = "arr") =>
              /\ UniquePositiveIds(synced.a)
              /\ \A i \in 1..Len(synced.a) : synced.a[i].id = i

\* Mapping 1 of the defaults was deleted and a mapping added: ids 2 and 3.
C18_Witness_AddAfterDelete ==
    /\ pc = "mapper"
    /\ Len(mappings) = 2 /\ mappings[1].id = 2 /\ mappings[2].id = 3
    /\ mappings[2].source = <<>>
    /\ nextId = 4

====
